---- MODULE Spec2Model ----
(***************************************************************************)
(* Model of android/gyp/process_resources.py: CreateExtraRJavaFiles and    *)
(* CreateExtraRJavaFile (generation of the extra per-package R.java        *)
(* files), and of the onResourcesLoaded routine of the generated class.    *)
(***************************************************************************)
EXTENDS Integers, Sequences, FiniteSets, TLC

\* ---------------------------------------------------------------- bounds
MaxPkgs == 2
MaxLines == 2
MaxText == 3

VARIABLES
  include_all,         \* argument include_all
  shared_resources,    \* argument shared_resources
  extra_packages,      \* argument extra_packages: sequence of dotted names
  extra_r_text_files,  \* argument extra_r_text_files: sequence of file ids
  java_files,          \* the R.java files present under r_dir at the call
  pc,                  \* position in CreateExtraRJavaFiles / the unit drivers
  i,                   \* index of the package the for loop is at
  err,                 \* message of the exception raised, "none" if none
  r_java_contents,     \* text read from the single R.java (fallback mode)
  all_resources,       \* dict (resource_type, name) -> (java_type, value)
  dirs,                \* directories existing under r_dir
  files,               \* path -> contents of the R.java files under r_dir
  writes,              \* log of the open(path, 'w').write calls: <<i, path>>
  reads,               \* log of the files opened for reading (0 is R.txt)
  probes,              \* log of the os.path.exists calls: <<file, result>>
  r_txt,               \* unit input: the lines of the base R.txt
  own_txt,             \* unit input: the lines of one extra R.txt
  fields,              \* static fields of the loaded generated class R
  last_id              \* packageId of the last onResourcesLoaded call

vars == <<include_all, shared_resources, extra_packages, extra_r_text_files,
          java_files, pc, i, err, r_java_contents, all_resources, dirs,
          files, writes, reads, probes, r_txt, own_txt, fields, last_id>>

\* ------------------------------------------------------------ sequences
SeqsUpTo(S, n) == UNION {[1..k -> S] : k \in 0..n}

Range(s) == {s[k] : k \in DOMAIN s}

IsPrefix(s, t) == Len(s) <= Len(t) /\ SubSeq(t, 1, Len(s)) = s

\* The empty dict / the empty file system.
EmptyMap == [k \in {} |-> 0]

Put(f, k, v) == [x \in DOMAIN f \cup {k} |-> IF x = k THEN v ELSE f[x]]

\* ------------------------------------------------- lines of an R.txt file
\* A line "<java_type> <resource_type> <name> <value>".  value "" is a line
\* that ends after the space following the name.
Line(jt, rt, n, v) == [java_type |-> jt, resource_type |-> rt, name |-> n, value |-> v]

Words == {"id", "drawable", "x", "y"}

\* re.match(r'(int(?:\[\])?) (\w+) (\w+) (.+)$', line)
RTxtMatch(line) ==
  /\ line.java_type \in {"int", "int[]"}
  /\ line.resource_type \in Words
  /\ line.name \in Words
  /\ line.value # ""

\* re.match(r'int(?:\[\])? (\w+) (\w+) ', line)
OwnMatch(line) ==
  /\ line.java_type \in {"int", "int[]"}
  /\ line.resource_type \in Words
  /\ line.name \in Words

Key(line) == <<line.resource_type, line.name>>

\* The loop over R.txt: all_resources[(resource_type, name)] = (java_type, value),
\* an exception at the first line that does not match.
RECURSIVE ParseLines(_, _)
ParseLines(lines, table) ==
  IF lines = <<>> THEN [ok |-> TRUE, table |-> table]
  ELSE IF ~RTxtMatch(Head(lines)) THEN [ok |-> FALSE, table |-> table]
  ELSE ParseLines(Tail(lines),
                  Put(table, Key(Head(lines)),
                      <<Head(lines).java_type, Head(lines).value>>))

ParseRTxt(lines) == ParseLines(lines, EmptyMap)

\* --------------------------------------------------- CreateExtraRJavaFile
\* The loop over the extra R.txt: look each (resource_type, name) up in
\* all_resources and append (name, java_type, value) to resources[resource_type].
\* status is "ok", or the exception that ended the loop.
RECURSIVE BuildResources(_, _, _)
BuildResources(lines, table, resources) ==
  IF lines = <<>> THEN [status |-> "ok", resources |-> resources]
  ELSE LET line == Head(lines)
           rt == line.resource_type
       IN IF ~OwnMatch(line)
            THEN [status |-> "Unexpected line in R.txt", resources |-> resources]
          ELSE IF Key(line) \notin DOMAIN table
            THEN [status |-> "KeyError", resources |-> resources]
          ELSE LET entry == <<line.name, table[Key(line)][1], table[Key(line)][2]>>
                   old == IF rt \in DOMAIN resources THEN resources[rt] ELSE <<>>
               IN BuildResources(Tail(lines), table,
                                 Put(resources, rt, Append(old, entry)))

\* The orders in which iterating over a dict with key set S can yield the
\* keys: resources is a plain dict and the script runs under Python 2
\* (dict.iteritems in ZipResources), where the order follows the hash slots
\* of the keys, not their insertion.
DictOrders(S) ==
  {o \in [1..Cardinality(S) -> S] : \A a, b \in DOMAIN o : a # b => o[a] # o[b]}

\* {% for name, java_type, value in resources[resource_type] %}: one field
\* declaration per tuple, final unless shared_resources.
FieldDecls(entries, shared) ==
  [k \in DOMAIN entries |->
     [final |-> ~shared, java_type |-> entries[k][2],
      name |-> entries[k][1], value |-> entries[k][3]]]

\* {% for resource_type in resources %} public static final class ...
ClassDecls(resources, shared, order) ==
  [k \in DOMAIN order |->
     [resource_type |-> order[k],
      fields |-> FieldDecls(resources[order[k]], shared)]]

\* The statements of onResourcesLoaded for one resource type: a for loop over
\* the elements when java_type == 'int[]', an assignment otherwise.
PatchStmtsOf(rt, entries) ==
  [k \in DOMAIN entries |->
     [kind |-> IF entries[k][2] = "int[]" THEN "loop" ELSE "assign",
      resource_type |-> rt, name |-> entries[k][1]]]

RECURSIVE PatchStmts(_, _)
PatchStmts(resources, order) ==
  IF order = <<>> THEN <<>>
  ELSE PatchStmtsOf(Head(order), resources[Head(order)])
         \o PatchStmts(resources, Tail(order))

\* template.render(package=..., resources=..., shared_resources=...): the
\* generated text, as its package line, nested classes and patch routine.
Render(package, resources, shared, order) ==
  [package |-> package,
   classes |-> ClassDecls(resources, shared, order),
   has_patch |-> shared,
   patch |-> IF shared THEN PatchStmts(resources, order) ELSE <<>>]

\* ------------------------------------------------------------ file system
\* os.path.join(r_dir, *package.split('.')): a package is the sequence of
\* the segments of its dotted name, r_dir is the root <<>>.
PackageDir(package) == package

RJavaPath(dir) == Append(dir, "R.java")

\* build_utils.MakeDirectory: os.makedirs, tolerating an existing directory.
MakeDirectory(ds, dir) == ds \cup {SubSeq(dir, 1, k) : k \in 1..Len(dir)}

\* The directories holding the R.java files found at the call.
InitialDirs(found) == UNION {MakeDirectory({}, SubSeq(p, 1, Len(p) - 1)) : p \in Range(found)}

\* CreateExtraRJavaFile(package, r_java_path, r_text_file, all_resources,
\* shared_resources) on the file system fs, own being the lines of
\* r_text_file and order the order in which the template iterates resources.
\* The output file is opened only after the loop and the rendering succeeded.
CreateExtraRJavaFile(package, r_java_path, own, table, shared, order, fs) ==
  LET r == BuildResources(own, table, EmptyMap)
  IN IF r.status = "ok"
       THEN [status |-> "ok",
             files |-> Put(fs, r_java_path, Render(package, r.resources, shared, order))]
       ELSE [status |-> r.status, files |-> fs]

ResourceTypesOf(own, table) == DOMAIN BuildResources(own, table, EmptyMap).resources

\* ------------------------------------------------- fallback: re.sub
\* The text of an R.java is a sequence of tokens: the keyword with its
\* space, words (\w+), ".", ";", the line end and any other character.
KW == "package "
NL == "\n"
TextWords == {"a", "b", "c"}
InClass(t) == t \in TextWords \/ t = "."

\* The end of the longest run of [.\w] tokens starting at position k.
RECURSIVE RunEnd(_, _)
RunEnd(text, k) ==
  IF k <= Len(text) /\ InClass(text[k]) THEN RunEnd(text, k + 1) ELSE k

\* u'package %s;' % package
RECURSIVE Dotted(_)
Dotted(package) ==
  IF Len(package) <= 1 THEN package
  ELSE <<Head(package), ".">> \o Dotted(Tail(package))

PackageDecl(package) == <<KW>> \o Dotted(package) \o <<";">>

\* re.sub(r'package [.\w]*;', u'package %s;' % package, text) from position k:
\* every non-overlapping match, leftmost first, wherever it stands.
RECURSIVE SubFrom(_, _, _)
SubFrom(text, package, k) ==
  IF k > Len(text) THEN <<>>
  ELSE IF text[k] = KW /\ RunEnd(text, k + 1) <= Len(text)
          /\ text[RunEnd(text, k + 1)] = ";"
    THEN PackageDecl(package) \o SubFrom(text, package, RunEnd(text, k + 1) + 1)
  ELSE <<text[k]>> \o SubFrom(text, package, k + 1)

ReSubPackage(text, package) == SubFrom(text, package, 1)

\* ------------------------------------------------------------ input sets
PackageNames == {<<"a">>, <<"a", "b">>}

RunBaseLines ==
  {Line("int", "id", "x", "0x7f010203"),
   Line("int[]", "drawable", "y", "{ 0x7f020001, 0x7f020002 }"),
   Line("float", "id", "x", "1")}

RunOwnLines ==
  {Line("int", "id", "x", "0x0"),
   Line("int[]", "drawable", "y", "{ 0x0 }"),
   Line("float", "id", "x", "1")}

JavaTokens == {KW, "c", ".", ";", NL, "/"}

FoundLists == {<<>>, <<RJavaPath(<<"c">>)>>, <<RJavaPath(<<"c">>), RJavaPath(<<"d">>)>>}

\* ------------------------------------------------ CreateExtraRJavaFiles
\* if len(java_files) != 1: return
AmbiguousBaseMut(found) == Len(found) < 1
AmbiguousBase(found) == Len(found) # 1

\* if len(extra_packages) != len(extra_r_text_files): raise
CountMismatchMut(packages, r_text_files) == Len(packages) > Len(r_text_files)
CountMismatch(packages, r_text_files) == Len(packages) # Len(r_text_files)

\* The for loop moves on to the next package, and the function returns
\* after the last one.
AdvanceMut ==
  /\ i' = i + 1
  /\ pc' = "done"
Advance ==
  /\ i' = i + 1
  /\ pc' = IF i >= Len(extra_packages) THEN "done" ELSE pc

\* The body of CreateExtraRJavaFiles up to its for loop.
Start ==
  /\ pc = "start"
  /\ UNCHANGED <<include_all, shared_resources, extra_packages, extra_r_text_files,
                 java_files, dirs, files, writes, r_txt, own_txt, fields, last_id, i>>
  /\ IF include_all
       THEN /\ UNCHANGED <<all_resources, probes, err>>
            /\ IF AmbiguousBase(java_files)
                 THEN pc' = "done" /\ UNCHANGED <<reads, r_java_contents>>
                 ELSE /\ r_java_contents' = files[java_files[1]]
                      /\ reads' = Append(reads, <<"R.java", 0>>)
                      /\ pc' = IF extra_packages = <<>> THEN "done" ELSE "copy"
       ELSE /\ UNCHANGED r_java_contents
            /\ IF CountMismatch(extra_packages, extra_r_text_files)
                 THEN /\ pc' = "error"
                      /\ err' = "Need one R.txt file per extra package"
                      /\ UNCHANGED <<all_resources, probes, reads>>
                 ELSE \E exists \in BOOLEAN :
                        /\ probes' = Append(probes, <<"R.txt", 0, exists>>)
                        /\ IF ~exists
                             THEN pc' = "done" /\ UNCHANGED <<all_resources, reads, err>>
                             ELSE \E text \in SeqsUpTo(RunBaseLines, MaxLines) :
                                    /\ reads' = Append(reads, <<"R.txt", 0>>)
                                    /\ IF ParseRTxt(text).ok
                                         THEN /\ all_resources' = ParseRTxt(text).table
                                              /\ err' = err
                                              /\ pc' = IF extra_packages = <<>>
                                                         THEN "done" ELSE "loop"
                                         ELSE /\ pc' = "error"
                                              /\ err' = "Unexpected line in R.txt"
                                              /\ UNCHANGED all_resources

\* One iteration of "for package in extra_packages" (include_all).
CopyStep ==
  /\ pc = "copy"
  /\ UNCHANGED <<include_all, shared_resources, extra_packages, extra_r_text_files,
                 java_files, r_java_contents, all_resources, reads, probes, err,
                 r_txt, own_txt, fields, last_id>>
  /\ LET package == extra_packages[i]
         package_r_java_dir == PackageDir(package)
         package_r_java_path == RJavaPath(package_r_java_dir)
     IN /\ dirs' = MakeDirectory(dirs, package_r_java_dir)
        /\ files' = Put(files, package_r_java_path,
                        ReSubPackage(r_java_contents, package))
        /\ writes' = Append(writes, <<i, package_r_java_path>>)
  /\ Advance

\* One iteration of "for package, r_text_file in zip(...)" (not include_all).
ExtraStep ==
  /\ pc = "loop"
  /\ UNCHANGED <<include_all, shared_resources, extra_packages, extra_r_text_files,
                 java_files, r_java_contents, all_resources, r_txt, fields, last_id>>
  /\ LET package == extra_packages[i]
         package_r_java_dir == PackageDir(package)
         package_r_java_path == RJavaPath(package_r_java_dir)
     IN \E exists \in BOOLEAN :
          /\ probes' = Append(probes, <<"extra", i, exists>>)
          /\ IF ~exists
               THEN UNCHANGED <<dirs, files, writes, reads, err, own_txt>> /\ Advance
               ELSE \E own \in SeqsUpTo(RunOwnLines, MaxLines) :
                    \E order \in DictOrders(ResourceTypesOf(own, all_resources)) :
                      LET r == CreateExtraRJavaFile(package, package_r_java_path, own,
                                                    all_resources, shared_resources,
                                                    order, files)
                      IN /\ dirs' = MakeDirectory(dirs, package_r_java_dir)
                         /\ reads' = Append(reads, <<"extra", i>>)
                         /\ own_txt' = own
                         /\ files' = r.files
                         /\ IF r.status = "ok"
                              THEN /\ writes' = Append(writes, <<i, package_r_java_path>>)
                                   /\ err' = err
                                   /\ Advance
                              ELSE /\ pc' = "error"
                                   /\ err' = r.status
                                   /\ UNCHANGED <<writes, i>>

InitRun ==
  /\ include_all \in BOOLEAN
  /\ shared_resources \in BOOLEAN
  /\ extra_packages \in SeqsUpTo(PackageNames, MaxPkgs)
  /\ extra_r_text_files \in {[k \in 1..m |-> k] : m \in 0..MaxPkgs}
  /\ IF include_all
       THEN \E found \in FoundLists, text \in SeqsUpTo(JavaTokens, MaxText) :
              /\ java_files = found
              /\ files = [p \in Range(found) |-> text]
       ELSE java_files = <<>> /\ files = EmptyMap
  /\ dirs = InitialDirs(java_files)
  /\ pc = "start"
  /\ i = 1
  /\ err = "none"
  /\ r_java_contents = <<>>
  /\ all_resources = EmptyMap
  /\ writes = <<>>
  /\ reads = <<>>
  /\ probes = <<>>
  /\ r_txt = <<>>
  /\ own_txt = <<>>
  /\ fields = EmptyMap
  /\ last_id = -1

Next == Start \/ CopyStep \/ ExtraStep

Spec == InitRun /\ [][Next]_vars

\* ------------------------------------------------------------ properties
\* What the for loop of the filtered mode has seen and done so far.
Probed(k) == \E e \in BOOLEAN : <<"extra", k, e>> \in Range(probes)
Present(k) == <<"extra", k, TRUE>> \in Range(probes)
Missing(k) == <<"extra", k, FALSE>> \in Range(probes)
WritesOf(k) == {n \in DOMAIN writes : writes[n][1] = k}
PathOf(k) == RJavaPath(PackageDir(extra_packages[k]))
BaseAbsent == probes # <<>> /\ probes[1] = <<"R.txt", 0, FALSE>>
Created == dirs \ InitialDirs(java_files)

\* Every line of an own-symbol-list matches and names a pair of the table.
Resolves(own, table) ==
  \A n \in DOMAIN own : OwnMatch(own[n]) /\ Key(own[n]) \in DOMAIN table

\* C1: in filtered mode, when an own-symbol-list names a pair absent from the
\* base table the run has failed and no R.java has been written for any
\* package of the run.
C1_NoOutputOnUnresolved ==
  (~include_all /\ pc = "error" /\ err = "KeyError") => writes = <<>>

\* C2: in filtered mode, when the number of packages differs from the number
\* of own-symbol-lists the run fails with the configuration error, and has
\* probed no file, read no file, created no directory and written no file.
C2_MismatchFailsFirst ==
  (~include_all /\ Len(extra_packages) # Len(extra_r_text_files)) =>
     /\ pc \in {"start", "error"}
     /\ pc = "error" => err = "Need one R.txt file per extra package"
     /\ probes = <<>> /\ reads = <<>> /\ writes = <<>>
     /\ Created = {} /\ files = EmptyMap

C2_Witness ==
  /\ ~include_all /\ pc = "error"
  /\ Len(extra_packages) # Len(extra_r_text_files)

\* C3: no output location is written a second time in one run: a second
\* package mapping to an already populated R.java is never written over it.
C3_NoOverwrite ==
  \A m, n \in DOMAIN writes : m # n => writes[m][2] # writes[n][2]

\* C4: in filtered mode a package whose own-symbol-list does not exist is
\* skipped: nothing is read or written for it, it causes no error, and its
\* directory exists only as (a parent of) the directory of a package that was
\* generated; every package whose list exists and resolves has exactly one
\* write, at its own path; an error only comes from a list that does not
\* resolve; and a finished run has examined every package.
C4_MissingListSkipped ==
  (~include_all /\ pc \in {"loop", "done", "error"}) =>
     /\ \A k \in DOMAIN extra_packages :
          /\ Missing(k) =>
               /\ WritesOf(k) = {}
               /\ <<"extra", k>> \notin Range(reads)
               /\ PackageDir(extra_packages[k]) \in dirs =>
                    \E j \in DOMAIN extra_packages :
                       /\ Present(j)
                       /\ IsPrefix(PackageDir(extra_packages[k]),
                                   PackageDir(extra_packages[j]))
          /\ (Present(k) /\ (k < i \/ pc = "done")) =>
               /\ Cardinality(WritesOf(k)) = 1
               /\ \A n \in WritesOf(k) : writes[n][2] = PathOf(k)
               /\ PathOf(k) \in DOMAIN files
     /\ (pc = "error" /\ Len(probes) > 1) =>
          /\ Present(i)
          /\ ~Resolves(own_txt, all_resources)
     /\ (pc = "done" /\ ~BaseAbsent) =>
          \A k \in DOMAIN extra_packages : Probed(k)

C4_Witness ==
  /\ ~include_all /\ pc = "done"
  /\ Len(extra_packages) = 2
  /\ Missing(1) /\ Present(2)
  /\ Len(writes) = 1 /\ PathOf(2) \in DOMAIN files
  /\ PackageDir(extra_packages[1]) \notin dirs

\* C8: the silent no-ops: with the base R.txt absent (filtered mode, equal
\* counts), and with a number of base R.java files other than one (fallback
\* mode), the run returns without error, having read nothing, created no
\* directory and written no file.
C8_SilentNoOp ==
  /\ (~include_all /\ BaseAbsent) =>
        /\ pc = "done" /\ err = "none"
        /\ reads = <<>> /\ writes = <<>> /\ Created = {} /\ files = EmptyMap
        /\ Len(probes) = 1
  /\ (include_all /\ Len(java_files) # 1) =>
        /\ pc \in {"start", "done"} /\ err = "none"
        /\ reads = <<>> /\ writes = <<>> /\ Created = {}
        /\ DOMAIN files = Range(java_files)

C8_Witness ==
  /\ ~include_all /\ BaseAbsent /\ pc = "done"
  /\ Len(extra_packages) = 2 /\ Len(extra_r_text_files) = 2

\* The position after the line that starts at position k.
RECURSIVE NextLine(_, _)
NextLine(text, k) ==
  IF k > Len(text) THEN k
  ELSE IF text[k] = NL THEN k + 1
  ELSE NextLine(text, k + 1)

\* A line is a package declaration when it begins with the keyword, a dotted
\* identifier and the terminator.
IsPackageLine(text, k) ==
  /\ k <= Len(text) /\ text[k] = KW
  /\ RunEnd(text, k + 1) <= Len(text)
  /\ text[RunEnd(text, k + 1)] = ";"

\* The text with the declaration of each package-declaration line naming
\* package, and every other line, and the rest of such a line, verbatim.
RECURSIVE RewrittenFrom(_, _, _)
RewrittenFrom(text, package, k) ==
  IF k > Len(text) THEN <<>>
  ELSE (IF IsPackageLine(text, k)
          THEN PackageDecl(package)
                 \o SubSeq(text, RunEnd(text, k + 1) + 1, NextLine(text, k) - 1)
          ELSE SubSeq(text, k, NextLine(text, k) - 1))
       \o RewrittenFrom(text, package, NextLine(text, k))

\* C7: in fallback mode with exactly one base R.java, a finished run has
\* written exactly one file per target package, at the package's path, equal
\* to the base text line for line except for the package-declaration line.
C7_FallbackCopiesVerbatim ==
  (include_all /\ Len(java_files) = 1 /\ pc = "done") =>
     \A k \in DOMAIN extra_packages :
        /\ Cardinality(WritesOf(k)) = 1
        /\ PathOf(k) \in DOMAIN files
        /\ files[PathOf(k)] = RewrittenFrom(r_java_contents, extra_packages[k], 1)

\* ------------------------------------------- the two functions on their own
\* The parse of R.txt in CreateExtraRJavaFiles, on the text r_txt.
UnitParse ==
  /\ pc = "unit_parse"
  /\ UNCHANGED <<include_all, shared_resources, extra_packages, extra_r_text_files,
                 java_files, i, r_java_contents, dirs, files, writes, probes,
                 r_txt, own_txt, fields, last_id>>
  /\ reads' = Append(reads, <<"R.txt", 0>>)
  /\ IF ParseRTxt(r_txt).ok
       THEN /\ all_resources' = ParseRTxt(r_txt).table
            /\ pc' = "unit_create"
            /\ err' = err
       ELSE /\ pc' = "error"
            /\ err' = "Unexpected line in R.txt"
            /\ UNCHANGED all_resources

\* CreateExtraRJavaFile on the text own_txt and the table all_resources.
UnitCreate ==
  /\ pc = "unit_create"
  /\ UNCHANGED <<include_all, shared_resources, extra_packages, extra_r_text_files,
                 java_files, i, r_java_contents, all_resources, dirs, probes,
                 r_txt, own_txt, fields, last_id>>
  /\ reads' = Append(reads, <<"extra", i>>)
  /\ \E order \in DictOrders(ResourceTypesOf(own_txt, all_resources)) :
       LET r == CreateExtraRJavaFile(extra_packages[i], PathOf(i), own_txt,
                                     all_resources, shared_resources, order, files)
       IN /\ files' = r.files
          /\ IF r.status = "ok"
               THEN /\ writes' = Append(writes, <<i, PathOf(i)>>)
                    /\ pc' = "unit_done"
                    /\ err' = err
               ELSE /\ pc' = "error"
                    /\ err' = r.status
                    /\ UNCHANGED writes

UnitKeys == {"id", "drawable"} \X {"x", "y"}

UnitTypedValues ==
  {<<"int", "0x7f010203">>, <<"int", "0x7f010204">>,
   <<"int[]", "{ 0x7f020001, 0x7f020002 }">>}

UnitBaseLines ==
  {Line(tv[1], k[1], k[2], tv[2]) : tv \in UnitTypedValues, k \in UnitKeys}
    \cup {Line("float", "id", "x", "1"), Line("int", "id", "x", "")}

UnitOwnLines ==
  {Line("int", k[1], k[2], "0x0") : k \in UnitKeys}
    \cup {Line("float", "id", "x", "1"), Line("int", "id", "x", "")}

InitUnit ==
  /\ r_txt \in SeqsUpTo(UnitBaseLines, MaxLines)
  /\ own_txt \in SeqsUpTo(UnitOwnLines, MaxLines)
  /\ shared_resources \in BOOLEAN
  /\ include_all = FALSE
  /\ extra_packages = <<<<"a", "b">>>>
  /\ extra_r_text_files = <<1>>
  /\ java_files = <<>>
  /\ files = EmptyMap
  /\ dirs = MakeDirectory({}, <<"a", "b">>)
  /\ pc = "unit_parse"
  /\ i = 1
  /\ err = "none"
  /\ r_java_contents = <<>>
  /\ all_resources = EmptyMap
  /\ writes = <<>>
  /\ reads = <<>>
  /\ probes = <<>>
  /\ fields = EmptyMap
  /\ last_id = -1

NextUnit == UnitParse \/ UnitCreate

SpecUnit == InitUnit /\ [][NextUnit]_vars

\* The lines of text before position n that carry the key of line n.
Earlier(text, n) == {m \in 1..(n - 1) : Key(text[m]) = Key(text[n])}

\* C5: a base table text in which a line repeats the key of an earlier line
\* is rejected by the parse, and the table never holds, for a key, the value
\* of another line than the first one carrying the key.
C5_DuplicateKeyFatal ==
  (pc \in {"unit_create", "unit_done"}) =>
     \A n \in DOMAIN r_txt :
        /\ Earlier(r_txt, n) = {}
        /\ all_resources[Key(r_txt[n])] = <<r_txt[n].java_type, r_txt[n].value>>

\* The field declarations of the generated file at path p for the pair key.
DeclsOf(p, key) ==
  {<<c, f>> \in (DOMAIN files[p].classes) \X (1..MaxLines) :
      /\ f \in DOMAIN files[p].classes[c].fields
      /\ files[p].classes[c].resource_type = key[1]
      /\ files[p].classes[c].fields[f].name = key[2]}

\* C6: the generated file holds exactly one field declaration for each pair
\* of the own-symbol-list, with the java type and the value of the base table.
C6_OneDeclarationPerPair ==
  (pc = "unit_done") =>
     \A n \in DOMAIN own_txt :
        /\ Cardinality(DeclsOf(PathOf(1), Key(own_txt[n]))) = 1
        /\ \A d \in DeclsOf(PathOf(1), Key(own_txt[n])) :
             LET decl == files[PathOf(1)].classes[d[1]].fields[d[2]]
             IN <<decl.java_type, decl.value>> = all_resources[Key(own_txt[n])]

\* The resource types of text in the order of their first occurrence.
RECURSIVE FirstSeen(_, _)
FirstSeen(text, seen) ==
  IF text = <<>> THEN <<>>
  ELSE IF Head(text).resource_type \in seen THEN FirstSeen(Tail(text), seen)
  ELSE <<Head(text).resource_type>>
         \o FirstSeen(Tail(text), seen \cup {Head(text).resource_type})

\* The names of the lines of text with resource type rt, in line order.
RECURSIVE NamesOf(_, _)
NamesOf(text, rt) ==
  IF text = <<>> THEN <<>>
  ELSE (IF Head(text).resource_type = rt THEN <<Head(text).name>> ELSE <<>>)
         \o NamesOf(Tail(text), rt)

\* C9: the nested classes of the generated file follow the first occurrence
\* of the resource types in the own-symbol-list, and the fields of each class
\* follow the lines of the list.
C9_FirstSeenOrder ==
  (pc = "unit_done") =>
     LET out == files[PathOf(1)]
     IN /\ [c \in DOMAIN out.classes |-> out.classes[c].resource_type]
             = FirstSeen(own_txt, {})
        /\ \A c \in DOMAIN out.classes :
             [f \in DOMAIN out.classes[c].fields |-> out.classes[c].fields[f].name]
               = NamesOf(own_txt, out.classes[c].resource_type)

\* ------------------------------------------- the generated class at run time
\* A Java int is its four bytes, most significant first.
RECURSIVE BitAnd(_, _, _)
BitAnd(a, b, n) ==
  IF n = 0 THEN 0
  ELSE (a % 2) * (b % 2) + 2 * BitAnd(a \div 2, b \div 2, n - 1)

RECURSIVE BitOr(_, _, _)
BitOr(a, b, n) ==
  IF n = 0 THEN 0
  ELSE (IF a % 2 = 1 \/ b % 2 = 1 THEN 1 ELSE 0) + 2 * BitOr(a \div 2, b \div 2, n - 1)

IntAnd(v, w) == [k \in 1..4 |-> BitAnd(v[k], w[k], 8)]
IntOr(v, w) == [k \in 1..4 |-> BitOr(v[k], w[k], 8)]

\* 0x00ffffff
LowMaskMut == <<255, 255, 255, 255>>
LowMask == <<0, 255, 255, 255>>

\* packageId << 24: the low byte of packageId becomes the top byte.
ShiftLeft24(packageId) == <<packageId % 256, 0, 0, 0>>

\* (v & 0x00ffffff) | (packageId << 24)
PatchValue(v, packageId) == IntOr(IntAnd(v, LowMask), ShiftLeft24(packageId))

\* One statement of onResourcesLoaded run on the fields fs of R.
ExecStmt(stmt, fs, packageId) ==
  LET key == <<stmt.resource_type, stmt.name>>
  IN IF stmt.kind = "loop"
       THEN [fs EXCEPT ![key] = [e \in DOMAIN fs[key] |-> PatchValue(fs[key][e], packageId)]]
       ELSE [fs EXCEPT ![key] = PatchValue(fs[key], packageId)]

RECURSIVE ExecPatch(_, _, _)
ExecPatch(stmts, fs, packageId) ==
  IF stmts = <<>> THEN fs
  ELSE ExecPatch(Tail(stmts), ExecStmt(Head(stmts), fs, packageId), packageId)

\* The value javac gives to a field initialized with the literal text.
LiteralValue(value) ==
  CASE value = "0x00010203" -> <<0, 1, 2, 3>>
    [] value = "0x7f040005" -> <<127, 4, 0, 5>>
    [] value = "0xffffffff" -> <<255, 255, 255, 255>>
    [] value = "{ 0x00000001, 0x00ffffff }" -> << <<0, 0, 0, 1>>, <<0, 255, 255, 255>> >>

\* The static fields of the class compiled from the generated text out.
DeclaredFields(out) ==
  LET decls == {<<c, f>> \in (DOMAIN out.classes) \X (1..MaxLines) :
                   f \in DOMAIN out.classes[c].fields}
      keyOf(d) == <<out.classes[d[1]].resource_type, out.classes[d[1]].fields[d[2]].name>>
  IN [key \in {keyOf(d) : d \in decls} |->
        LET d == CHOOSE d \in decls : keyOf(d) = key
        IN LiteralValue(out.classes[d[1]].fields[d[2]].value)]

\* The class R of the generated file is loaded: public static ... name = value;
LoadClass ==
  /\ pc = "unit_done"
  /\ UNCHANGED <<include_all, shared_resources, extra_packages, extra_r_text_files,
                 java_files, i, err, r_java_contents, all_resources, dirs, files,
                 writes, reads, probes, r_txt, own_txt, last_id>>
  /\ fields' = DeclaredFields(files[PathOf(i)])
  /\ pc' = "loaded"

PackageIds == {0, 1, 2, 127, 128, 255, 383}

\* public static void onResourcesLoaded(int packageId)
OnResourcesLoaded ==
  /\ pc = "loaded"
  /\ files[PathOf(i)].has_patch
  /\ UNCHANGED <<include_all, shared_resources, extra_packages, extra_r_text_files,
                 java_files, i, err, r_java_contents, all_resources, dirs, files,
                 writes, reads, probes, r_txt, own_txt, pc>>
  /\ \E packageId \in PackageIds :
       /\ fields' = ExecPatch(files[PathOf(i)].patch, fields, packageId)
       /\ last_id' = packageId

PatchTable ==
  (<<"id", "x">> :> <<"int", "0x00010203">>)
    @@ (<<"id", "y">> :> <<"int", "0x7f040005">>)
    @@ (<<"drawable", "x">> :> <<"int[]", "{ 0x00000001, 0x00ffffff }">>)
    @@ (<<"drawable", "y">> :> <<"int", "0xffffffff">>)

PatchOwnLines == {Line(PatchTable[k][1], k[1], k[2], "0x0") : k \in DOMAIN PatchTable}

\* The own-symbol-lists the generated class of which compiles: no pair twice.
InitPatch ==
  /\ own_txt \in {t \in SeqsUpTo(PatchOwnLines, MaxLines) :
                     \A m, n \in DOMAIN t : m # n => t[m] # t[n]}
  /\ all_resources = PatchTable
  /\ r_txt = <<>>
  /\ shared_resources \in BOOLEAN
  /\ include_all = FALSE
  /\ extra_packages = <<<<"a", "b">>>>
  /\ extra_r_text_files = <<1>>
  /\ java_files = <<>>
  /\ files = EmptyMap
  /\ dirs = MakeDirectory({}, <<"a", "b">>)
  /\ pc = "unit_create"
  /\ i = 1
  /\ err = "none"
  /\ r_java_contents = <<>>
  /\ writes = <<>>
  /\ reads = <<>>
  /\ probes = <<>>
  /\ fields = EmptyMap
  /\ last_id = -1

NextPatch == UnitCreate \/ LoadClass \/ OnResourcesLoaded

SpecPatch == InitPatch /\ [][NextPatch]_vars

\* The value of a field after a patch with an 8-bit packageId: packageId in
\* the top byte over the three low bytes of the declared value.
Patched(orig, packageId) == <<packageId, orig[2], orig[3], orig[4]>>

\* Every field of the table named by the own-symbol-list is a field of R
\* and, once onResourcesLoaded(p) has run with an 8-bit p, holds p in its top
\* byte over the low 24 bits of its declared value, element by element for an
\* array.
C10_AllFieldsPatched ==
  (pc = "loaded") =>
     /\ DOMAIN fields = {Key(own_txt[n]) : n \in DOMAIN own_txt}
     /\ (last_id \in 0..255) =>
          \A key \in DOMAIN fields :
             LET orig == LiteralValue(PatchTable[key][2])
             IN IF PatchTable[key][1] = "int[]"
                  THEN /\ DOMAIN fields[key] = DOMAIN orig
                       /\ \A e \in DOMAIN orig : fields[key][e] = Patched(orig[e], last_id)
                  ELSE fields[key] = Patched(orig, last_id)

\* C10: onResourcesLoaded patches every field of the RenderModel to
\* (v & 0x00FFFFFF) | (packageId << 24), and a second call with the same
\* packageId changes no field.
C10_PatchRoutine ==
  /\ []C10_AllFieldsPatched
  /\ [][(pc = "loaded" /\ last_id' = last_id /\ last_id # -1) => fields' = fields]_vars

C10_Witness ==
  /\ pc = "loaded" /\ last_id = 127
  /\ Len(own_txt) = 2
  /\ <<"id", "x">> \in DOMAIN fields /\ <<"drawable", "x">> \in DOMAIN fields
  /\ fields[<<"id", "x">>] = <<127, 1, 2, 3>>
  /\ fields[<<"drawable", "x">>] = << <<127, 0, 0, 1>>, <<127, 255, 255, 255>> >>

====
